---- MODULE Spec2Model ----
(***************************************************************************)
(* A model of the swc-plugin-use-prompt transform (src/src/lib.rs).        *)
(*                                                                         *)
(* The program walks one module, children first.  At every function        *)
(* declaration or expression it runs transform_fn_body, which may replace  *)
(* the function's body by generated code taken from the substitutions      *)
(* cache or by a throwing body.  On leaving the module it inserts the      *)
(* "use client" directive and appends the collected imports; a second      *)
(* visitor, FixImportsVisitor, then appends `import React from "react"`.   *)
(*                                                                         *)
(* Source text is a TLA+ string.  The swc parser is an external library:   *)
(* make_module_from_source is modelled by its result on the finite set of  *)
(* source texts the model uses, every other text being a syntax error.     *)
(* A function is named by an identifier 1..n given in source order; a      *)
(* function nested in another appears as a statement of its body.          *)
(*                                                                         *)
(* The program is a Module (a Script has no visit_mut_module step).  The   *)
(* counter `visited` is a u32; the model's modules have far fewer than     *)
(* 2^32 sites, so it is an unbounded integer here.  The emoji that start   *)
(* two of the error messages are left out of the message strings.          *)
(***************************************************************************)
EXTENDS Integers, Sequences, FiniteSets, TLC

VARIABLES
    substitutions,  \* SubstitutionVisitor.substitutions: lo -> hi -> prompt -> Substitution
    fn,             \* the functions of the module: fn[f] = [lo, hi, parent]
    orig,           \* history: the module as it was handed to process_transform
    prev,           \* history: the module as it was handed to the current pass
    body,           \* body[f]: Function.body of function f, an Option of a statement list
    items,          \* Module.body, the top-level item list
    imports,        \* SubstitutionVisitor.imports
    visited,        \* SubstitutionVisitor.visited
    has_react,      \* FixImportsVisitor.has_react
    todo,           \* the functions the children-first walk has still to visit, in order
    pc,             \* "walk", "fix" or "done": the position inside process_transform
    pass,           \* how many times process_transform has been started on this module
    log             \* history: one record per transform_fn_body call of this pass

vars == <<substitutions, fn, orig, prev, body, items, imports, visited, has_react,
          todo, pc, pass, log>>

(* Bounds of the model. *)
MaxFns == 2
MaxPasses == 2
MaxIndex == 12

---------------------------------------------------------------------------
(* Option and PResult values. *)
None == [some |-> FALSE]
Some(v) == [some |-> TRUE, v |-> v]
Ok(v) == [ok |-> TRUE, v |-> v]
Err(e) == [ok |-> FALSE, e |-> e]

(* str::starts_with *)
StartsWith(s, p) == Len(s) >= Len(p) /\ SubSeq(s, 1, Len(p)) = p

White == {" ", "\t"}

RECURSIVE TrimStart(_)
TrimStart(s) ==
    IF Len(s) = 0 THEN s
    ELSE IF SubSeq(s, 1, 1) \in White THEN TrimStart(SubSeq(s, 2, Len(s)))
    ELSE s

RECURSIVE TrimEnd(_)
TrimEnd(s) ==
    IF Len(s) = 0 THEN s
    ELSE IF SubSeq(s, Len(s), Len(s)) \in White THEN TrimEnd(SubSeq(s, 1, Len(s) - 1))
    ELSE s

(* str::trim *)
Trim(s) == TrimEnd(TrimStart(s))

(* u32::to_string and the {visit_index} of format!: decimal digits. *)
RECURSIVE ToDecimal(_)
ToDecimal(n) ==
    IF n < 10 THEN SubSeq("0123456789", n + 1, n + 1)
    ELSE ToDecimal(n \div 10) \o SubSeq("0123456789", (n % 10) + 1, (n % 10) + 1)

---------------------------------------------------------------------------
(* AST nodes. *)
LitStmt(value) == [k |-> "lit", value |-> value]
OtherStmt == [k |-> "other"]
FnRef(f) == [k |-> "fn", id |-> f]
ThrowNewError(msg) == [k |-> "throw", callee |-> "Error", msg |-> msg]
ReturnStmt(shape, idents) == [k |-> "return", shape |-> shape, idents |-> idents]
NamedSpec(local, imported) == [kind |-> "Named", local |-> local, imported |-> imported]
DefaultSpec(local) == [kind |-> "Default", local |-> local]
NamespaceSpec(local) == [kind |-> "Namespace", local |-> local]
ImportDecl(specifiers, src) == [k |-> "import", specifiers |-> specifiers, src |-> src]
WrappedFnDecl(stmts) == [k |-> "fndecl", ident |-> "wrapped", stmts |-> stmts]

(* The name under which the source module exports what a specifier imports. *)
ExternalName(spec) ==
    IF spec.kind = "Named"
    THEN (IF spec.imported.some THEN spec.imported.v ELSE spec.local)
    ELSE IF spec.kind = "Default" THEN "default" ELSE "*"

PROMPTS_PREFIX == "use prompt:"
PrefixLen == 11
IncompleteMsg == "Incomplete prompt!"
CodeFailMsg == "Guess ChatGPT isn't great at writing code..."

(* make_prompt_error_body: a block of one statement, throw new Error(msg). *)
make_prompt_error_body(msg) == Some(<<ThrowNewError(msg)>>)

(* The text make_block_stmt_from_source hands to the parser. *)
Wrap(source) == "function wrapped() { " \o source \o " }"

(* make_module_from_source: the parser's result, Ok(items) or Err. *)
make_module_from_source(source) ==
    CASE source = "import { bar } from 'x';" ->
            Ok(<<ImportDecl(<<NamedSpec("bar", None)>>, "x")>>)
      [] source = "import { ext as loc } from 'x';" ->
            Ok(<<ImportDecl(<<NamedSpec("loc", Some("ext"))>>, "x")>>)
      [] source = "import D from 'y'; import * as NS from 'z';" ->
            Ok(<<ImportDecl(<<DefaultSpec("D")>>, "y"),
                 ImportDecl(<<NamespaceSpec("NS")>>, "z")>>)
      [] source = "import React, { bar } from 'react';" ->
            Ok(<<ImportDecl(<<DefaultSpec("React"), NamedSpec("bar", None)>>, "react")>>)
      [] source = Wrap("return 1;") ->
            Ok(<<WrappedFnDecl(<<ReturnStmt("num1", <<>>)>>)>>)
      [] source = Wrap("return bar();") ->
            Ok(<<WrappedFnDecl(<<ReturnStmt("call", <<"bar">>)>>)>>)
      [] source = Wrap("return loc();") ->
            Ok(<<WrappedFnDecl(<<ReturnStmt("call", <<"loc">>)>>)>>)
      [] source = Wrap("return D(NS);") ->
            Ok(<<WrappedFnDecl(<<ReturnStmt("call", <<"D", "NS">>)>>)>>)
      [] source = Wrap("return React(bar);") ->
            Ok(<<WrappedFnDecl(<<ReturnStmt("call", <<"React", "bar">>)>>)>>)
      [] OTHER -> Err("syntax error")

EmptyIdentMap == [key \in {} |-> ""]

(* HashMap::insert *)
IdentMapInsert(m, key, val) ==
    [x \in DOMAIN m \cup {key} |-> IF x = key THEN val ELSE m[x]]

(* RenameIdentVisitor::visit_mut_ident *)
RenameIdent(ident_map, sym) ==
    IF sym \in DOMAIN ident_map THEN ident_map[sym] ELSE sym

RenameStmt(ident_map, stmt) ==
    IF stmt.k = "return"
    THEN [stmt EXCEPT !.idents = [i \in DOMAIN stmt.idents |->
                                     RenameIdent(ident_map, stmt.idents[i])]]
    ELSE stmt

(* make_block_stmt_from_source *)
make_block_stmt_from_source(source, ident_map) ==
    LET ast == make_module_from_source(Wrap(source)) IN
    IF ~ast.ok THEN ast
    ELSE LET decl == ast.v[1] IN
         Ok([i \in DOMAIN decl.stmts |-> RenameStmt(ident_map, decl.stmts[i])])

(* The three arms of RenameImportsVisitor::visit_mut_import_decl, for one
   specifier: the specifier as rewritten. *)
RenameSpecifier(prefix, spec) ==
    LET key == spec.local
        pfxed == prefix \o key
    IN  IF spec.kind = "Named"
        THEN [spec EXCEPT !.local = pfxed, !.imported = Some(key)]
        ELSE [spec EXCEPT !.local = pfxed]

(* RenameImportsVisitor::visit_mut_import_decl over the specifiers in order:
   the rewritten specifiers and the ident_map. *)
RECURSIVE RenameSpecifiers(_, _, _)
RenameSpecifiers(prefix, specs, ident_map) ==
    IF specs = <<>> THEN [specs |-> <<>>, ident_map |-> ident_map]
    ELSE LET spec == Head(specs)
             m1 == IdentMapInsert(ident_map, spec.local, prefix \o spec.local)
             rest == RenameSpecifiers(prefix, Tail(specs), m1)
         IN  [specs |-> <<RenameSpecifier(prefix, spec)>> \o rest.specs,
              ident_map |-> rest.ident_map]

(* RenameImportsVisitor over the items of the parsed imports block. *)
RECURSIVE RenameImportItems(_, _, _)
RenameImportItems(prefix, its, ident_map) ==
    IF its = <<>> THEN [items |-> <<>>, ident_map |-> ident_map]
    ELSE LET it == Head(its)
             r == IF it.k = "import"
                  THEN RenameSpecifiers(prefix, it.specifiers, ident_map)
                  ELSE [specs |-> <<>>, ident_map |-> ident_map]
             it1 == IF it.k = "import" THEN [it EXCEPT !.specifiers = r.specs] ELSE it
             rest == RenameImportItems(prefix, Tail(its), r.ident_map)
         IN  [items |-> <<it1>> \o rest.items, ident_map |-> rest.ident_map]

(* make_imports_from_source *)
make_imports_from_source(source, prefix) ==
    LET ast == make_module_from_source(source) IN
    IF ~ast.ok THEN ast
    ELSE Ok(RenameImportItems(prefix, ast.v, EmptyIdentMap))

(* The prefix without the visit index. *)
ImportPrefix_NoIndex(visit_index) == "__swcPluginUsePromptImport___"

(* format!("__swcPluginUsePromptImport__{visit_index}_") *)
ImportPrefix(visit_index) ==
    "__swcPluginUsePromptImport__" \o ToDecimal(visit_index) \o "_"

---------------------------------------------------------------------------
(* The substitutions cache. *)

(* serde_json::from_str into SubstitutionMap: the three-level map holding the
   entries <<lo, hi, prompt, substitution>> of the JSON object. *)
SubstitutionMapOf(entries) ==
    [lo \in {e[1] : e \in entries} |->
      [hi \in {e[2] : e \in {x \in entries : x[1] = lo}} |->
        [p \in {e[3] : e \in {x \in entries : x[1] = lo /\ x[2] = hi}} |->
            (CHOOSE e \in entries : e[1] = lo /\ e[2] = hi /\ e[3] = p)[4]]]]

(* Lookup with a fuzzy third key: an entry whose prompt is a prefix of the
   directive's text matches too. *)
Lookup_PromptPrefix(subs, lo, hi, prompt) ==
    IF lo \in DOMAIN subs /\ hi \in DOMAIN subs[lo]
          /\ \E q \in DOMAIN subs[lo][hi] : StartsWith(prompt, q)
    THEN Some(subs[lo][hi][CHOOSE q \in DOMAIN subs[lo][hi] : StartsWith(prompt, q)])
    ELSE None

(* The lookup of transform_fn_body: substitutions.get(lo)?.get(hi)?.get(prompt) *)
Lookup(subs, lo, hi, prompt) ==
    IF lo \in DOMAIN subs
    THEN IF hi \in DOMAIN subs[lo]
         THEN IF prompt \in DOMAIN subs[lo][hi]
              THEN Some(subs[lo][hi][prompt])
              ELSE None
         ELSE None
    ELSE None

---------------------------------------------------------------------------
(* transform_fn_body *)

(* The prologue taken with filter_map instead of map_while: every string-literal
   statement of the body, leading or not. *)
RECURSIVE Prologue_AllLiterals(_)
Prologue_AllLiterals(stmts) ==
    IF stmts = <<>> THEN <<>>
    ELSE (IF Head(stmts).k = "lit" THEN <<Head(stmts).value>> ELSE <<>>)
         \o Prologue_AllLiterals(Tail(stmts))

(* The prologue: the values of the leading run of string-literal statements
   (map_while). *)
RECURSIVE Prologue(_)
Prologue(stmts) ==
    IF stmts = <<>> THEN <<>>
    ELSE IF Head(stmts).k = "lit"
         THEN <<Head(stmts).value>> \o Prologue(Tail(stmts))
         ELSE <<>>

(* The scan with an empty directive skipped (None instead of Some(Err(1))). *)
RECURSIVE FirstPrompt_SkipEmpty(_)
FirstPrompt_SkipEmpty(prologue) ==
    IF prologue = <<>> THEN None
    ELSE LET s == Head(prologue)
             prompt == Trim(SubSeq(s, PrefixLen + 1, Len(s)))
         IN  IF ~StartsWith(s, PROMPTS_PREFIX) \/ prompt = ""
             THEN FirstPrompt_SkipEmpty(Tail(prologue))
             ELSE Some(Ok(prompt))

(* filter_map(..).next(): None, Some(Err(1)) or Some(Ok(prompt)). *)
RECURSIVE FirstPrompt(_)
FirstPrompt(prologue) ==
    IF prologue = <<>> THEN None
    ELSE LET s == Head(prologue) IN
         IF ~StartsWith(s, PROMPTS_PREFIX) THEN FirstPrompt(Tail(prologue))
         ELSE LET prompt == Trim(SubSeq(s, PrefixLen + 1, Len(s))) IN
              IF prompt = "" THEN Some(Err(1)) ELSE Some(Ok(prompt))

(* A record of the history variable log. *)
LogEntry(f, outcome, idx, prompt, new_imports, ident_map) ==
    [f |-> f, outcome |-> outcome, idx |-> idx, prompt |-> prompt,
     new_imports |-> new_imports, ident_map |-> ident_map]

Skipped(st, f, outcome) ==
    [st EXCEPT !.log = Append(@, LogEntry(f, outcome, -1, "", <<>>, EmptyIdentMap))]

(* transform_fn_body from the lookup on: the prompt is valid. *)
Substitute(st, f, prompt, subs, span) ==
    LET visit_index == st.visited
        st1 == [st EXCEPT !.visited = @ + 1]
        subst == Lookup(subs, ToDecimal(span.lo), ToDecimal(span.hi), prompt)
    IN
    IF ~subst.some
    THEN [st1 EXCEPT !.log = Append(@, LogEntry(f, "pending", visit_index, prompt,
                                                <<>>, EmptyIdentMap))]
    ELSE
    LET imp == IF subst.v.imports.some
               THEN make_imports_from_source(subst.v.imports.v, ImportPrefix(visit_index))
               ELSE Ok([items |-> <<>>, ident_map |-> EmptyIdentMap])
    IN
    IF ~imp.ok
    THEN [st1 EXCEPT !.body[f] = make_prompt_error_body("uh oh: " \o imp.e),
                     !.log = Append(@, LogEntry(f, "imports_err", visit_index, prompt,
                                                <<>>, EmptyIdentMap))]
    ELSE
    LET st2 == [st1 EXCEPT !.imports = @ \o imp.v.items]
        blk == make_block_stmt_from_source(subst.v.code, imp.v.ident_map)
    IN
    IF blk.ok
    THEN [st2 EXCEPT !.body[f] = Some(blk.v),
                     !.log = Append(@, LogEntry(f, "ok", visit_index, prompt,
                                                imp.v.items, imp.v.ident_map))]
    ELSE [st2 EXCEPT !.body[f] = make_prompt_error_body(CodeFailMsg),
                     !.log = Append(@, LogEntry(f, "code_err", visit_index, prompt,
                                                imp.v.items, imp.v.ident_map))]

(* transform_fn_body(func, span) on the visitor state st = [body, items,
   imports, visited, has_react, log]. *)
transform_fn_body(st, f, subs, span) ==
    LET b == st.body[f] IN
    IF ~b.some THEN Skipped(st, f, "no_body")
    ELSE IF b.v = <<>> THEN Skipped(st, f, "empty_body")
    ELSE LET prompt == FirstPrompt(Prologue(b.v)) IN
         IF ~prompt.some THEN Skipped(st, f, "no_directive")
         ELSE IF ~prompt.v.ok
              THEN [st EXCEPT !.body[f] = make_prompt_error_body(IncompleteMsg),
                              !.log = Append(@, LogEntry(f, "incomplete", -1, "",
                                                         <<>>, EmptyIdentMap))]
              ELSE Substitute(st, f, prompt.v.v, subs, span)

---------------------------------------------------------------------------
(* The walk and the module exit. *)

(* The order in which visit_mut_children_with reaches the functions below a
   statement list: each function after the functions nested in it. *)
RECURSIVE PostOrder(_, _)
PostOrder(b, stmts) ==
    IF stmts = <<>> THEN <<>>
    ELSE LET s == Head(stmts) IN
         (IF s.k = "fn"
          THEN (IF b[s.id].some THEN PostOrder(b, b[s.id].v) ELSE <<>>) \o <<s.id>>
          ELSE <<>>)
         \o PostOrder(b, Tail(stmts))

IsClientDirective(item) == item.k = "lit" /\ item.value = "use client"

(* SubstitutionVisitor::visit_mut_module after the children were visited. *)
visit_mut_module_exit(st) ==
    LET has_client_directive == \E i \in DOMAIN st.items : IsClientDirective(st.items[i])
        withDirective == IF st.visited > 0 /\ ~has_client_directive
                         THEN <<LitStmt("use client")>> \o st.items
                         ELSE st.items
    IN  [st EXCEPT !.items = withDirective \o st.imports]

(* The scan looking at default specifiers only. *)
HasReactSpecifier_DefaultOnly(its) ==
    \E i \in DOMAIN its :
        /\ its[i].k = "import"
        /\ \E j \in DOMAIN its[i].specifiers :
               its[i].specifiers[j].kind = "Default" /\ its[i].specifiers[j].local = "React"

(* FixImportsVisitor::visit_mut_import_decl over every import of the module. *)
HasReactSpecifier(its) ==
    \E i \in DOMAIN its :
        /\ its[i].k = "import"
        /\ \E j \in DOMAIN its[i].specifiers : its[i].specifiers[j].local = "React"

ReactImport == ImportDecl(<<DefaultSpec("React")>>, "react")

(* The import pushed without looking at has_react. *)
fix_imports_always_push(st) ==
    [st EXCEPT !.has_react = st.has_react \/ HasReactSpecifier(st.items),
               !.items = Append(@, ReactImport)]

(* FixImportsVisitor::visit_mut_module *)
fix_imports_visit_mut_module(st) ==
    LET found == st.has_react \/ HasReactSpecifier(st.items) IN
    [st EXCEPT !.has_react = found,
               !.items = IF ~found THEN Append(@, ReactImport) ELSE @]

(* The visits of the functions in `order`, one after the other. *)
RECURSIVE VisitAll(_, _, _, _)
VisitAll(st, order, subs, fns) ==
    IF order = <<>> THEN st
    ELSE VisitAll(transform_fn_body(st, Head(order), subs,
                                    [lo |-> fns[Head(order)].lo, hi |-> fns[Head(order)].hi]),
                  Tail(order), subs, fns)

(* The state of fresh visitors on a module: SubstitutionVisitor::new and
   FixImportsVisitor::new. *)
NewVisitors(b, its) ==
    [body |-> b, items |-> its, imports |-> <<>>, visited |-> 0,
     has_react |-> FALSE, log |-> <<>>]

(* process_transform on the module (b, its). *)
process_transform(b, its, subs, fns) ==
    fix_imports_visit_mut_module(
        visit_mut_module_exit(
            VisitAll(NewVisitors(b, its), PostOrder(b, its), subs, fns)))

---------------------------------------------------------------------------
(* The inputs: the modules and the caches the model starts from. *)

(* The functions enclosing f, f included, in a module whose function f has
   parent p[f] (0: the module itself). *)
RECURSIVE AncOrSelf(_, _)
AncOrSelf(p, f) == IF f = 0 THEN {} ELSE {f} \cup AncOrSelf(p, p[f])

(* Functions are numbered in source order, so the parent of f is the function
   before it, one enclosing that, or the module. *)
ParentMaps(n) ==
    {p \in [1..n -> 0..n] :
        \A f \in 1..n : p[f] < f /\ (f > 1 => p[f] \in AncOrSelf(p, f - 1) \cup {0})}

Depth(p, f) == Cardinality(AncOrSelf(p, f)) - 1

LastInside(p, f) == CHOOSE g \in DOMAIN p :
    /\ f \in AncOrSelf(p, g)
    /\ \A h \in DOMAIN p : f \in AncOrSelf(p, h) => h <= g

(* Spans: function f starts at 10 * f and ends after the last function nested
   in it, an enclosing function later than the ones it encloses. *)
SpanLo(p, f) == 10 * f
SpanHi(p, f) == 10 * LastInside(p, f) + 10 - Depth(p, f)

(* The statements a function starts with, before the functions nested in it. *)
OwnStmts ==
    { <<LitStmt("Use prompt: foo"), OtherStmt, LitStmt("use prompt: foo")>>,
      <<LitStmt("use prompt: foo"), OtherStmt>>,
      <<LitStmt("use strict"), LitStmt("use prompt:bar \t")>>,
      <<LitStmt("use prompt: "), LitStmt("use prompt: foo")>>,
      <<>> }

(* A function of the input: its statements, or no body at all (a declaration). *)
OwnBodies == {Some(o) : o \in OwnStmts} \cup {None}

(* The top-level items a module starts with, before its functions. *)
Heads ==
    { <<>>,
      <<ImportDecl(<<NamedSpec("React", None)>>, "x")>>,
      <<ImportDecl(<<NamedSpec("bar", None)>>, "x"), LitStmt("use client")>>,
      <<LitStmt("use client"), ImportDecl(<<DefaultSpec("React")>>, "react")>> }

Substitution(code, imps) == [code |-> code, imports |-> imps]

Ret1 == Substitution("return 1;", None)
Bar == Substitution("return bar();", Some("import { bar } from 'x';"))
Alias == Substitution("return loc();", Some("import { ext as loc } from 'x';"))
Multi == Substitution("return D(NS);", Some("import D from 'y'; import * as NS from 'z';"))
ReactSub == Substitution("return React(bar);", Some("import React, { bar } from 'react';"))
BadCode == Substitution("return (", None)
BadImports == Substitution("return 1;", Some("import {"))
ImportsOkCodeBad == Substitution("return (", Some("import { bar } from 'x';"))

(* The keys of every span a function of the model can have. *)
SpanKeys ==
    {<<ToDecimal(10 * f), ToDecimal(10 * l + 10 - d)>> :
        <<f, l, d>> \in {t \in (1..MaxFns) \X (1..MaxFns) \X (0..MaxFns - 1) : t[1] <= t[2]}}

(* A cache holding `foo` under the prompt "foo" and `bar` under "bar" at every span. *)
Uniform(foo, bar) ==
    SubstitutionMapOf({<<k[1], k[2], "foo", foo>> : k \in SpanKeys}
                      \cup {<<k[1], k[2], "bar", bar>> : k \in SpanKeys})

Caches ==
    { SubstitutionMapOf({}),
      SubstitutionMapOf({<<"10", "20", "foo", Ret1>>}),
      SubstitutionMapOf({<<"010", "20", "foo", Ret1>>, <<"10", "020", "foo", Ret1>>,
                         <<"10", "21", "foo", Ret1>>, <<"11", "20", "foo", Ret1>>,
                         <<"10", "2", "foo", Ret1>>, <<"1", "20", "foo", Ret1>>,
                         <<"10", "20", "fo", Ret1>>, <<"10", "20", "foo ", Ret1>>,
                         <<"10", "20", "Foo", Ret1>>, <<"10", "20", "use prompt: foo", Ret1>>,
                         <<"20", "30", "foo", Bar>>}),
      Uniform(Bar, Alias),
      Uniform(Multi, ReactSub),
      Uniform(BadCode, BadImports),
      Uniform(ImportsOkCodeBad, Bar) }

(* The statements of function f: its own, then the functions nested in it. *)
RECURSIVE ChildRefs(_, _, _)
ChildRefs(p, f, g) ==
    IF g > Len(p) THEN <<>>
    ELSE (IF p[g] = f THEN <<FnRef(g)>> ELSE <<>>) \o ChildRefs(p, f, g + 1)

---------------------------------------------------------------------------
(* The state machine. *)

Cur == [body |-> body, items |-> items, imports |-> imports, visited |-> visited,
        has_react |-> has_react, log |-> log]

Install(st) ==
    /\ body' = st.body
    /\ items' = st.items
    /\ imports' = st.imports
    /\ visited' = st.visited
    /\ has_react' = st.has_react
    /\ log' = st.log

Init ==
    \E n \in 0..MaxFns : \E p \in ParentMaps(n) : \E own \in [1..n -> OwnBodies] :
    \E head \in Heads : \E cache \in Caches :
        /\ \A f \in 1..n : ~own[f].some => ChildRefs(p, f, 1) = <<>>
        /\ substitutions = cache
        /\ fn = [f \in 1..n |-> [lo |-> SpanLo(p, f), hi |-> SpanHi(p, f), parent |-> p[f]]]
        /\ body = [f \in 1..n |-> IF own[f].some
                                  THEN Some(own[f].v \o ChildRefs(p, f, 1))
                                  ELSE None]
        /\ items = head \o ChildRefs(p, 0, 1)
        /\ orig = [body |-> body, items |-> items]
        /\ prev = orig
        /\ imports = <<>>
        /\ visited = 0
        /\ has_react = FALSE
        /\ todo = PostOrder(body, items)
        /\ pc = "walk"
        /\ pass = 1
        /\ log = <<>>

(* visit_mut_fn_decl / visit_mut_fn_expr: the children were visited before (they
   come earlier in todo); transform_fn_body on the function itself. *)
VisitFn ==
    /\ pc = "walk"
    /\ todo # <<>>
    /\ LET f == Head(todo) IN
       Install(transform_fn_body(Cur, f, substitutions, [lo |-> fn[f].lo, hi |-> fn[f].hi]))
    /\ todo' = Tail(todo)
    /\ UNCHANGED <<substitutions, fn, orig, prev, pc, pass>>

(* SubstitutionVisitor::visit_mut_module, once every function was visited. *)
ModuleExit ==
    /\ pc = "walk"
    /\ todo = <<>>
    /\ Install(visit_mut_module_exit(Cur))
    /\ pc' = "fix"
    /\ UNCHANGED <<substitutions, fn, orig, prev, todo, pass>>

(* The second fold of process_transform: FixImportsVisitor. *)
FixImports ==
    /\ pc = "fix"
    /\ Install(fix_imports_visit_mut_module(Cur))
    /\ pc' = "done"
    /\ UNCHANGED <<substitutions, fn, orig, prev, todo, pass>>

(* process_transform again, on the module the last pass returned, with fresh
   visitors and the same cache file. *)
Rerun ==
    /\ pc = "done"
    /\ pass < MaxPasses
    /\ Install(NewVisitors(body, items))
    /\ prev' = [body |-> body, items |-> items]
    /\ todo' = PostOrder(body, items)
    /\ pc' = "walk"
    /\ pass' = pass + 1
    /\ UNCHANGED <<substitutions, fn, orig>>

Next == VisitFn \/ ModuleExit \/ FixImports \/ Rerun

Spec == Init /\ [][Next]_vars

---------------------------------------------------------------------------
(* What the claims speak of, stated on the syntax tree and the cache alone. *)

(* The statements of the maximal leading run of string-literal statements. *)
LeadingLiterals(stmts) == {i \in DOMAIN stmts : \A j \in 1..i : stmts[j].k = "lit"}

(* Those of them that start with the exact prefix `use prompt:`. *)
PromptLiterals(stmts) ==
    {i \in LeadingLiterals(stmts) : StartsWith(stmts[i].value, "use prompt:")}

HasDirective(b) == b.some /\ PromptLiterals(b.v) # {}

(* The text of the first `use prompt:` literal, after the prefix, trimmed. *)
DirectiveText(b) ==
    LET i == CHOOSE x \in PromptLiterals(b.v) : \A y \in PromptLiterals(b.v) : x <= y
    IN  Trim(SubSeq(b.v[i].value, 12, Len(b.v[i].value)))

(* The cache holds an entry under exactly the keys (lo, hi, p). *)
EntryAt(lo, hi, p) ==
    \E l \in DOMAIN substitutions : \E h \in DOMAIN substitutions[l] :
        l = ToDecimal(lo) /\ h = ToDecimal(hi) /\ p \in DOMAIN substitutions[l][h]

TheEntry(lo, hi, p) == substitutions[ToDecimal(lo)][ToDecimal(hi)][p]

(* The functions transform_fn_body has run on in this pass. *)
VisitedFns == {log[i].f : i \in DOMAIN log}

(* The entry of the log for function f. *)
LogOf(f) == log[CHOOSE i \in DOMAIN log : log[i].f = f]

IsSingleThrow(b) ==
    b.some /\ Len(b.v) = 1 /\ b.v[1].k = "throw" /\ b.v[1].callee = "Error"

(* The sites of the claim: visited functions whose directive text is not empty. *)
PromptSites == {f \in VisitedFns : HasDirective(prev.body[f]) /\ DirectiveText(prev.body[f]) # ""}

Parses(source) == make_module_from_source(source).ok

(* The body a substitution stands for: its code as parsed by the fragment
   parser, the identifiers its imports bind renamed as the site renamed them. *)
ParsedCode(f) ==
    make_block_stmt_from_source(TheEntry(fn[f].lo, fn[f].hi, DirectiveText(prev.body[f])).code,
                                LogOf(f).ident_map)

(* C1 as stated: the body of a function with a non-empty directive text p and
   span [lo, hi) is replaced by the parsed code of a substitution exactly when
   the cache holds an entry under (lo, hi, p); otherwise it is left untouched. *)
C1_Original ==
    \A f \in PromptSites :
        IF EntryAt(fn[f].lo, fn[f].hi, DirectiveText(prev.body[f]))
        THEN ParsedCode(f).ok /\ body[f] = Some(ParsedCode(f).v)
        ELSE body[f] = prev.body[f]

(* C1 as amended: with an entry under exactly (lo, hi, p) whose imports block (if
   any) and code both parse, the body becomes the parsed code; with an entry of
   which either does not parse, the body becomes a single throw statement;
   with no such entry the function's statement list is left untouched. *)
C1_ExactKeyLookup ==
    \A f \in PromptSites :
        LET p == DirectiveText(prev.body[f]) IN
        IF EntryAt(fn[f].lo, fn[f].hi, p)
        THEN LET e == TheEntry(fn[f].lo, fn[f].hi, p) IN
             IF (e.imports.some => Parses(e.imports.v)) /\ Parses(Wrap(e.code))
             THEN body[f] = Some(ParsedCode(f).v)
             ELSE IsSingleThrow(body[f])
        ELSE body[f] = prev.body[f]

(* The example of the specification: the entry (10, 20, "foo") with code
   "return 1;" and no imports, a function spanning [10, 20) with directive
   "foo", and the body the single statement `return 1`. *)
C1_Witness ==
    \E f \in PromptSites :
        /\ fn[f].lo = 10 /\ fn[f].hi = 20 /\ DirectiveText(prev.body[f]) = "foo"
        /\ EntryAt(10, 20, "foo") /\ TheEntry(10, 20, "foo") = Ret1
        /\ body[f] = Some(<<ReturnStmt("num1", <<>>)>>)

---------------------------------------------------------------------------
(* The function's body as a tree: the functions nested in it in place of the
   statements that declare them. *)
RECURSIVE Expand(_, _)
Expand(b, stmts) ==
    [i \in DOMAIN stmts |->
        IF stmts[i].k = "fn"
        THEN [k |-> "fn", id |-> stmts[i].id,
              body |-> IF b[stmts[i].id].some
                       THEN Some(Expand(b, b[stmts[i].id].v))
                       ELSE None]
        ELSE stmts[i]]

BodyTree(b, f) == IF b[f].some THEN Some(Expand(b, b[f].v)) ELSE None

ParentOf == [g \in DOMAIN fn |-> fn[g].parent]

(* The functions nested in f, at any depth. *)
NestedIn(f) == {g \in DOMAIN fn : g # f /\ f \in AncOrSelf(ParentOf, g)}

(* C2 as stated: for every function with no leading `use prompt:` literal the
   transform is the identity on the function's body, whatever the cache holds. *)
C2_Original ==
    \A f \in DOMAIN fn :
        ~HasDirective(prev.body[f]) => BodyTree(body, f) = BodyTree(prev.body, f)

(* C2 as amended: for every function with no leading `use prompt:` literal the
   transform leaves the function's own statement list as it was, and leaves its
   whole body as it was unless a function nested in it carries such a literal. *)
C2_NoDirectiveIdentity ==
    \A f \in DOMAIN fn :
        ~HasDirective(prev.body[f]) =>
            /\ body[f] = prev.body[f]
            /\ (\A g \in NestedIn(f) : ~HasDirective(prev.body[g]))
                   => BodyTree(body, f) = BodyTree(prev.body, f)

(* A function that was visited, has a `use prompt: foo` literal after its leading
   run only, a cache entry under its span and "foo", and its body as it was. *)
C2_Witness ==
    \E f \in VisitedFns :
        /\ ~HasDirective(prev.body[f])
        /\ prev.body[f].some
        /\ \E i \in DOMAIN prev.body[f].v : prev.body[f].v[i] = LitStmt("use prompt: foo")
        /\ EntryAt(fn[f].lo, fn[f].hi, "foo")
        /\ body[f] = prev.body[f]

(* C3: a function whose first `use prompt:` prologue literal has an empty
   remainder after the prefix and trimming has, once visited, a body that is
   exactly one statement, throw new Error(message), whatever the cache holds. *)
C3_EmptyDirectiveThrows ==
    \A f \in VisitedFns :
        (HasDirective(prev.body[f]) /\ DirectiveText(prev.body[f]) = "")
            => IsSingleThrow(body[f])

(* Such a function with a later valid prologue literal "foo" for which the cache
   holds an entry at the function's span, its body the single throw. *)
C3_Witness ==
    \E f \in VisitedFns :
        /\ HasDirective(prev.body[f]) /\ DirectiveText(prev.body[f]) = ""
        /\ \E i \in PromptLiterals(prev.body[f].v) :
               Trim(SubSeq(prev.body[f].v[i].value, 12, Len(prev.body[f].v[i].value))) = "foo"
        /\ EntryAt(fn[f].lo, fn[f].hi, "foo")
        /\ body[f] = Some(<<ThrowNewError(IncompleteMsg)>>)

---------------------------------------------------------------------------
Succeeded == \E i \in DOMAIN log : log[i].outcome = "ok"

(* The imports block of the entry a visited site matched, as the parser reads it. *)
SourceImports(f) ==
    make_module_from_source(
        TheEntry(fn[f].lo, fn[f].hi, DirectiveText(prev.body[f])).imports.v).v

(* C4: for every named import specifier of a substitution's imports block, one
   written with an alias included, the renamer changes only the local alias, to
   prefix + local, and keeps the external exported name. *)
C4_ExternalNamePreserved ==
    \A f \in VisitedFns :
        LogOf(f).new_imports # <<>> =>
            LET old == SourceImports(f)
                new == LogOf(f).new_imports
            IN  \A i \in DOMAIN old : \A j \in DOMAIN old[i].specifiers :
                    old[i].specifiers[j].kind = "Named" =>
                        /\ new[i].specifiers[j].local
                              = ImportPrefix(LogOf(f).idx) \o old[i].specifiers[j].local
                        /\ ExternalName(new[i].specifiers[j])
                              = ExternalName(old[i].specifiers[j])

(* Names an imports block may bind. *)
Idents == {"bar", "_", "_1_bar", "x1", "$0_bar", "__swcPluginUsePromptImport__1_bar"}

RenamedAt(i) == {log[i].ident_map[a] : a \in DOMAIN log[i].ident_map}

(* The identifiers the renamer can produce at visit index k from those names. *)
RenamesOf == [k \in 0..MaxIndex |-> {ImportPrefix(k) \o b : b \in Idents}]

(* C5: within one pass the visit indices of the substitution applications grow
   strictly with the order of application, no identifier renamed at one site
   equals an identifier renamed at another site, and none equals prefix + name
   for the prefix of any other visit index and any name. *)
C5_DistinctPrefixes ==
    /\ \A i, j \in DOMAIN log :
          (i < j /\ log[i].idx >= 0 /\ log[j].idx >= 0) => log[i].idx < log[j].idx
    /\ \A i, j \in DOMAIN log : i # j => RenamedAt(i) \cap RenamedAt(j) = {}
    /\ \A i \in DOMAIN log : \A k \in 0..MaxIndex :
          k # log[i].idx => RenamesOf[k] \cap RenamedAt(i) = {}

(* Two sites of one pass whose imports blocks bind the same local name. *)
C5_Witness ==
    \E i, j \in DOMAIN log :
        /\ i # j
        /\ log[i].outcome = "ok" /\ log[j].outcome = "ok"
        /\ DOMAIN log[i].ident_map \cap DOMAIN log[j].ident_map # {}

ClientDirectives(its) == Cardinality({i \in DOMAIN its : IsClientDirective(its[i])})

(* C6: after the module exit, if a substitution succeeded in the module there
   is exactly one "use client" literal and it is the first item; if none
   succeeded, no "use client" literal was inserted. *)
C6_ClientDirective ==
    pc \in {"fix", "done"} =>
        IF Succeeded
        THEN items # <<>> /\ IsClientDirective(items[1]) /\ ClientDirectives(items) = 1
        ELSE ClientDirectives(items) = ClientDirectives(prev.items)

HasDefaultReact(its) ==
    \E i \in DOMAIN its :
        /\ its[i].k = "import"
        /\ \E j \in DOMAIN its[i].specifiers : its[i].specifiers[j] = DefaultSpec("React")

HasAnyReact(its) ==
    \E i \in DOMAIN its :
        /\ its[i].k = "import"
        /\ \E j \in DOMAIN its[i].specifiers : its[i].specifiers[j].local = "React"

(* C7 as stated: the step after the module exit appends `import React from
   "react"` exactly when a substitution succeeded in the module and the module
   has no default import with the local name React; otherwise it adds nothing. *)
C7_Original ==
    [][pc = "fix" =>
          IF Succeeded /\ ~HasDefaultReact(items)
          THEN items' = Append(items, ReactImport)
          ELSE items' = items]_vars

(* C7 as amended: the step after the module exit appends `import React from
   "react"` to every module, a substitution having succeeded or not, unless
   some import specifier of the module (default, named or namespace) has the
   local name React; then it adds nothing. *)
C7_ReactImport ==
    [][pc = "fix" =>
          IF ~HasAnyReact(items)
          THEN items' = Append(items, ReactImport)
          ELSE items' = items]_vars

(* A module in which no function carries a directive ends its first pass with
   the React import appended. *)
C7_Witness ==
    /\ pc = "done" /\ pass = 1
    /\ ~Succeeded /\ visited = 0
    /\ ~HasAnyReact(orig.items)
    /\ items = Append(orig.items, ReactImport)

(* The functions of the output tree. *)
InOutput(f) == \E i \in DOMAIN PostOrder(body, items) : PostOrder(body, items)[i] = f

(* The rewritten imports of the successful substitutions whose generated body
   is in the output tree, in the order of the walk, from log entry i on. *)
RECURSIVE KeptImports(_)
KeptImports(i) ==
    IF i > Len(log) THEN <<>>
    ELSE (IF log[i].outcome = "ok" /\ InOutput(log[i].f) THEN log[i].new_imports ELSE <<>>)
         \o KeptImports(i + 1)

(* C8: the imports appended at the module exit are exactly the rewritten
   imports of the successful substitutions whose body is in the output tree,
   each once, in the order of the walk. *)
C8_AppendedImports ==
    pc = "fix" =>
        \E d \in {<<>>, <<LitStmt("use client")>>} :
            items = d \o prev.items \o KeptImports(1)

(* The statements without the `use prompt:` literals of the leading run. *)
RECURSIVE Without(_, _, _)
Without(stmts, drop, i) ==
    IF i > Len(stmts) THEN <<>>
    ELSE (IF i \in drop THEN <<>> ELSE <<stmts[i]>>) \o Without(stmts, drop, i + 1)

(* The input module with the directive of function f taken away. *)
WithoutDirective(f) ==
    [orig.body EXCEPT ![f] = Some(Without(orig.body[f].v, PromptLiterals(orig.body[f].v), 1))]

(* C9: a site that fails (empty directive, imports block or code that does not
   parse) gets a single throwing statement as its body, and every function
   outside it and the module's item list are what the transform yields on the
   same module with that function carrying no directive. *)
C9_LocalRecovery ==
    (pc = "done" /\ pass = 1) =>
        \A i \in DOMAIN log :
            log[i].outcome \in {"incomplete", "imports_err", "code_err"} =>
                LET f == log[i].f
                    alt == process_transform(WithoutDirective(f), orig.items,
                                             substitutions, fn)
                IN  /\ IsSingleThrow(body[f])
                    /\ items = alt.items
                    /\ \A g \in DOMAIN fn \ ({f} \cup NestedIn(f)) : body[g] = alt.body[g]

ReactDefaults(its) ==
    Cardinality({<<i, j>> \in (DOMAIN its) \X (1..2) :
                    /\ its[i].k = "import"
                    /\ j \in DOMAIN its[i].specifiers
                    /\ its[i].specifiers[j] = DefaultSpec("React")})

(* C10: a pass over a module an earlier pass finalized, with one "use client"
   literal and one default import React in it, leaves exactly one of each,
   at every step of the pass and for every number of passes. *)
C10_FinalizeIdempotent ==
    (pass >= 2 /\ ClientDirectives(prev.items) = 1 /\ ReactDefaults(prev.items) = 1)
        => (ClientDirectives(items) = 1 /\ ReactDefaults(items) = 1)

(* A finished second pass over such a module in which a directive was still
   waiting for its substitution, so that the module exit looked for the
   "use client" literal again. *)
C10_Witness ==
    /\ pass >= 2 /\ pc = "done" /\ visited > 0
    /\ ClientDirectives(prev.items) = 1 /\ ReactDefaults(prev.items) = 1
    /\ ClientDirectives(items) = 1 /\ ReactDefaults(items) = 1

====
